---------------------------- MODULE Spec2Model ----------------------------
(***************************************************************************)
(* Model of the restaurant report pipeline: extract.py (Record Source),    *)
(* analyze.py (Metrics Engine), report.py (Document Renderer),             *)
(* email_sender.py (Delivery Agent) and the three entry points             *)
(* run_daily.py, main.py and run_monthly.py.                               *)
(*                                                                         *)
(* Python values are modelled as follows.  A DataFrame is the sequence of  *)
(* its rows, a row is a record of its columns.  A dict is a function or a  *)
(* record.  The result of a call is a record [raised, value]: raised is    *)
(* the name of the exception class that left the call, or "" when the call *)
(* returned, and then value is what it returned.                           *)
(***************************************************************************)
EXTENDS Integers, Sequences, FiniteSets, TLC

VARIABLES
    config,        \* the attributes of the imported module config
    invoices_df,   \* the invoice DataFrame handed to the Metrics Engine
    sales_df,      \* the line-item DataFrame handed to the Metrics Engine
    previous_data, \* the previous snapshot handed to generate_report_data
    call,          \* the function whose result ret holds ("" before a call)
    ret,           \* the result of that call
    report_data,   \* the snapshot handed to generate_pdf
    output_path,   \* the output_path handed to generate_pdf ("" for None)
    data_invoices, \* the detail rows handed to generate_pdf, or None
    files,         \* the documents on disk, by path
    send_args,     \* the arguments of the call of send_report_email
    send_pc,       \* the position of that call ("idle" when there is none)
    msg,           \* the message it built
    net,           \* the network operations it attempted, with their outcome
    send_ret,      \* its result
    machine,       \* the machine of the run: has it the MDB file, has it mdb-export
    exports,       \* the tables mdb-export was started for, in order
    entry,         \* the entry point that runs
    pc,            \* its position
    today,         \* datetime.now(), the calendar date
    window,        \* the window asked of get_data_by_time, or None
    trail,         \* the stages the run entered, in order
    faults,        \* the exceptions raised in the run and what became of them
    exit_code      \* the exit status of the process (NotExited while it runs)

metrics_vars == <<config, invoices_df, sales_df, previous_data>>

pdf_vars == <<report_data, output_path, data_invoices, files>>

email_vars == <<send_args, send_pc, msg, net, send_ret>>

run_vars ==
    <<machine, exports, entry, pc, today, window, trail, faults, exit_code>>

vars == <<metrics_vars, call, ret, pdf_vars, email_vars, run_vars>>

-----------------------------------------------------------------------------
(* Bounds of the model *)

\* the largest number of rows of a DataFrame
MaxRows == 2

-----------------------------------------------------------------------------
(* Python values *)

\* a call that returned v
Returned(v) == [raised |-> "", value |-> v]

\* a call that an exception of class e left
Raised(e) == [raised |-> e, value |-> <<>>]

\* Python's None
None == [none |-> TRUE]

\* a label cell that holds no value (NaN): groupby and value_counts skip it
NaN == "NaN"

\* an empty dict
EmptyDict == [k \in {} |-> 0]

\* "not x" for a value that is None or a dict
Falsy(x) == DOMAIN x = {} \/ "none" \in DOMAIN x

\* a datetime: year, month, day and hour (the windows are on the hour)
Stamp(y, m, d, t) == [y |-> y, m |-> m, d |-> d, t |-> t]

\* DATE of an empty column: min() and max() give NaT
NaT == Stamp(0, 0, 0, 0)

\* a datetime taken whole where its date is meant
DateOf_with_time(ts) == ts

\* datetime.date(): the calendar date of a datetime
DateOf(ts) == [y |-> ts.y, m |-> ts.m, d |-> ts.d]

SeqsUpTo(S, n) == UNION {[1..k -> S] : k \in 0..n}

RECURSIVE SumSeq(_)
SumSeq(s) == IF s = <<>> THEN 0 ELSE Head(s) + SumSeq(Tail(s))

\* df[col].sum(): 0 for a frame with no rows
ColSum(df, col) == SumSeq([i \in 1..Len(df) |-> df[i][col]])

\* the distinct values of a label column, NaN left out (groupby, value_counts)
Keys(df, col) == {df[i][col] : i \in 1..Len(df)} \ {NaN}

\* a count of labels where value_counts counts rows: 1 for every label
ValueCounts_one_each(df, col) == [k \in Keys(df, col) |-> 1]

\* df[col].value_counts().to_dict()
ValueCounts(df, col) ==
    [k \in Keys(df, col) |-> Cardinality({i \in 1..Len(df) : df[i][col] = k})]

\* groupby(col)[val].sum() with the sum taken over the whole frame
GroupSum_whole_frame(df, col, val) == [k \in Keys(df, col) |-> ColSum(df, val)]

\* df.groupby(col)[val].sum().to_dict()
GroupSum(df, col, val) ==
    [k \in Keys(df, col) |->
        LET IsK(r) == r[col] = k IN ColSum(SelectSeq(df, IsK), val)]

\* a quotient a / b of the code, kept exact as numerator and denominator
Quot(a, b) == [num |-> a, den |-> b]

Zero == [num |-> 0, den |-> 1]

\* the order of datetimes
DateLE(a, b) ==
    \/ a.y < b.y
    \/ a.y = b.y /\ a.m < b.m
    \/ a.y = b.y /\ a.m = b.m /\ a.d < b.d
    \/ a.y = b.y /\ a.m = b.m /\ a.d = b.d /\ a.t <= b.t

-----------------------------------------------------------------------------
(* analyze.py: the Metrics Engine *)

\* analyze_invoices with the guard of the division dropped (lines 15-19)
analyze_invoices_unguarded(df) ==
    [total_revenue |-> ColSum(df, "AMOUNT"),
     total_transactions |-> Len(df),
     average_transaction |-> Quot(ColSum(df, "AMOUNT"), Len(df)),
     payment_breakdown |->
        [counts |-> ValueCounts(df, "SALE_INFO"),
         amounts |-> GroupSum(df, "SALE_INFO", "AMOUNT")],
     service_breakdown |->
        [counts |-> ValueCounts(df, "C_NO"),
         amounts |-> GroupSum(df, "C_NO", "AMOUNT")],
     daily_sales |->
        [day \in {DateOf(df[i].DATE) : i \in 1..Len(df)} |->
            LET OnDay(r) == DateOf(r.DATE) = day
            IN  ColSum(SelectSeq(df, OnDay), "AMOUNT")],
     total_vat |-> ColSum(df, "VAT")]

\* analyze_invoices(invoices_df): no statement of it raises, also for a frame
\* with no rows (the sums are 0, the groupings are empty)
analyze_invoices(df) ==
    LET total_revenue == ColSum(df, "AMOUNT")
        total_transactions == Len(df)
    IN  [total_revenue |-> total_revenue,
         total_transactions |-> total_transactions,
         average_transaction |->
            IF total_transactions > 0
            THEN Quot(total_revenue, total_transactions)
            ELSE Zero,
         payment_breakdown |->
            [counts |-> ValueCounts(df, "SALE_INFO"),
             amounts |-> GroupSum(df, "SALE_INFO", "AMOUNT")],
         service_breakdown |->
            [counts |-> ValueCounts(df, "C_NO"),
             amounts |-> GroupSum(df, "C_NO", "AMOUNT")],
         daily_sales |->
            [day \in {DateOf(df[i].DATE) : i \in 1..Len(df)} |->
                LET OnDay(r) == DateOf(r.DATE) = day
                IN  ColSum(SelectSeq(df, OnDay), "AMOUNT")],
         total_vat |-> ColSum(df, "VAT")]

\* sales_df.groupby(col).agg({QTY, AMOUNT, COST: sum}).reset_index() with the
\* PROFIT column added: one record per distinct value of col
Groups(df, col) ==
    {LET IsK(r) == r[col] = k
         g == SelectSeq(df, IsK)
     IN  [key |-> k,
          QTY |-> ColSum(g, "QTY"),
          AMOUNT |-> ColSum(g, "AMOUNT"),
          COST |-> ColSum(g, "COST"),
          PROFIT |-> ColSum(g, "AMOUNT") - ColSum(g, "COST")]
     : k \in Keys(df, col)}

\* sort_values("AMOUNT", ascending=False): the orders it can produce.  The
\* default sort is not stable, so groups of equal AMOUNT come in any order.
SortedDesc(G) ==
    {s \in [1..Cardinality(G) -> G] :
        /\ \A i, j \in 1..Cardinality(G) : i # j => s[i] # s[j]
        /\ \A i, j \in 1..Cardinality(G) : i < j => s[i].AMOUNT >= s[j].AMOUNT}

\* DataFrame.head(n) for n >= 0
Head_n(s, n) == SubSeq(s, 1, IF n < Len(s) THEN n ELSE Len(s))

\* items_per_order.mean(): NaN (den = 0) when there is no group
MeanItemsPerOrder(df) ==
    LET HasInv(r) == r.INV_NO # NaN
    IN  Quot(ColSum(SelectSeq(df, HasInv), "QTY"), Cardinality(Keys(df, "INV_NO")))

\* analyze_sales(sales_df), given the order the two sorts produced.  Line 62
\* reads config.TOP_ITEMS_COUNT: AttributeError when config does not define it.
analyze_sales(df, cfg, by_item, by_category) ==
    IF "TOP_ITEMS_COUNT" \notin DOMAIN cfg
    THEN Raised("AttributeError")
    ELSE Returned(
        [top_items |-> Head_n(by_item, cfg.TOP_ITEMS_COUNT),
         category_performance |-> by_category,
         total_items_sold |-> ColSum(df, "QTY"),
         total_cost |-> ColSum(df, "COST"),
         total_profit |-> ColSum(df, "AMOUNT") - ColSum(df, "COST"),
         avg_items_per_order |-> MeanItemsPerOrder(df)])

\* round(n / p, 0) of Python for p > 0: the nearest integer, a tie to the even one
RoundHalfEven(n, p) ==
    LET f == n \div p
        r == n % p
    IN  IF 2 * r < p THEN f
        ELSE IF 2 * r > p THEN f + 1
        ELSE IF f % 2 = 0 THEN f ELSE f + 1

\* calculate_growth(current_metrics, previous_metrics): None or the growth in
\* tenths of a percent (round(growth, 1)).  "not previous_metrics" holds of
\* None and of an empty dict.  Where the quotient is a tie between two tenths
\* it has a power of two as denominator, so the float holds it exactly and
\* round() gives the even tenth.
calculate_growth(current_metrics, previous_metrics) ==
    IF Falsy(previous_metrics)
    THEN None
    ELSE LET current_revenue == current_metrics.invoices.total_revenue
             previous_revenue == previous_metrics.invoices.total_revenue
         IN  IF previous_revenue = 0
             THEN None
             ELSE [tenths |->
                     RoundHalfEven(1000 * (current_revenue - previous_revenue),
                                   previous_revenue)]

\* invoices_df["DATE"].min() and .max(): NaT for a frame with no rows
DateMin(df) ==
    IF df = <<>> THEN NaT
    ELSE CHOOSE x \in {df[i].DATE : i \in 1..Len(df)} :
            \A i \in 1..Len(df) : DateLE(x, df[i].DATE)

DateMax(df) ==
    IF df = <<>> THEN NaT
    ELSE CHOOSE x \in {df[i].DATE : i \in 1..Len(df)} :
            \A i \in 1..Len(df) : DateLE(df[i].DATE, x)

\* generate_report_data with a module-level memory of its last report, against
\* which it computes the growth from the second call on
generate_report_data_remembering(inv, sales, prev, cfg, by_item, by_category) ==
    LET s == analyze_sales(sales, cfg, by_item, by_category)
        report == [invoices |-> analyze_invoices(inv),
                   sales |-> s.value,
                   period |-> [start_date |-> DateMin(inv),
                               end_date |-> DateMax(inv)]]
        last == IF call = "" THEN prev ELSE ret.value
    IN  IF s.raised # ""
        THEN s
        ELSE IF ~Falsy(last)
             THEN Returned([growth |-> calculate_growth(report, last)] @@ report)
             ELSE Returned(report)

\* generate_report_data(invoices_df, sales_df, previous_data): the dict literal
\* calls analyze_invoices, then analyze_sales, whose exception leaves the call
generate_report_data(inv, sales, prev, cfg, by_item, by_category) ==
    LET s == analyze_sales(sales, cfg, by_item, by_category)
        report == [invoices |-> analyze_invoices(inv),
                   sales |-> s.value,
                   period |-> [start_date |-> DateMin(inv),
                               end_date |-> DateMax(inv)]]
    IN  IF s.raised # ""
        THEN s
        ELSE IF ~Falsy(prev)
             THEN Returned([growth |-> calculate_growth(report, prev)] @@ report)
             ELSE Returned(report)

-----------------------------------------------------------------------------
(* The calendar of datetime and timedelta *)

IsLeap(y) == (y % 4 = 0 /\ y % 100 # 0) \/ y % 400 = 0

DaysIn(y, m) ==
    IF m = 2 THEN (IF IsLeap(y) THEN 29 ELSE 28)
    ELSE IF m \in {4, 6, 9, 11} THEN 30 ELSE 31

\* date + timedelta(days=1)
NextDay(date) ==
    IF date.d < DaysIn(date.y, date.m)
    THEN [date EXCEPT !.d = date.d + 1]
    ELSE IF date.m < 12
         THEN [y |-> date.y, m |-> date.m + 1, d |-> 1]
         ELSE [y |-> date.y + 1, m |-> 1, d |-> 1]

\* date - timedelta(days=1)
PrevDay(date) ==
    IF date.d > 1
    THEN [date EXCEPT !.d = date.d - 1]
    ELSE IF date.m > 1
         THEN [y |-> date.y, m |-> date.m - 1, d |-> DaysIn(date.y, date.m - 1)]
         ELSE [y |-> date.y - 1, m |-> 12, d |-> 31]

\* datetime(y, m, d, t, 0)
At(date, t) == Stamp(date.y, date.m, date.d, t)

MonthNames ==
    <<"January", "February", "March", "April", "May", "June", "July",
      "August", "September", "October", "November", "December">>

Pad2(n) == IF n < 10 THEN "0" \o ToString(n) ELSE ToString(n)

\* strftime("%B %Y"), a string being the sequence of its pieces
MonthLabel(y, m) == <<MonthNames[m], " ", ToString(y)>>

\* strftime("%B %d, %Y")
DayLabel(date) ==
    <<MonthNames[date.m], " ", Pad2(date.d), ",", " ", ToString(date.y)>>

-----------------------------------------------------------------------------
(* extract.py: the Record Source *)

\* export_table: the rows of the table, or RuntimeError when mdb-export is
\* not installed (lines 17-25)
export_table(tool_present, table) ==
    IF ~tool_present THEN Raised("RuntimeError") ELSE Returned(table)

\* a cell of the exported CSV whose text does not match "%m/%d/%y %H:%M:%S"
Unparseable == [text |-> "?"]

\* the DATE cell and the TIME cell mdb-export writes for a row stamped ts: the
\* day at midnight, and the hour on the day Access counts from
DateCell(ts) == Stamp(ts.y, ts.m, ts.d, 0)

TimeCell(ts) == Stamp(1899, 12, 30, ts.t)

\* pd.to_datetime(column, format=..., errors="coerce") on one cell (lines
\* 60-64): the datetime the text spells, NaT for any other text
ToDatetimeCoerce(cell) == IF "text" \in DOMAIN cell THEN NaT ELSE cell

\* lines 66-68 on one row: the date of DATE and the time of TIME are written
\* out as text and parsed again, this time without errors="coerce", so the
\* text "NaT" of a cell that did not parse raises
CombineDateTime(r) ==
    LET date == ToDatetimeCoerce(r.DATE)
        time == ToDatetimeCoerce(r.TIME)
    IN  IF date = NaT \/ time = NaT
        THEN Raised("ValueError")
        ELSE Returned(Stamp(date.y, date.m, date.d, time.t))

\* filter_table_by_time: the rows with start <= DATE <= end, a bound that is
\* None leaving its side open (lines 71-76)
filter_table_by_time(tool_present, table, start_datetime, end_datetime) ==
    LET df == export_table(tool_present, table)
        Kept(r) == /\ (start_datetime # None => DateLE(start_datetime, r.DATE))
                   /\ (end_datetime # None => DateLE(r.DATE, end_datetime))
    IN  IF df.raised # ""
        THEN df
        ELSE IF \E i \in 1..Len(df.value) :
                    CombineDateTime(df.value[i]).raised # ""
             THEN Raised("ValueError")
             ELSE Returned(SelectSeq(
                      [i \in 1..Len(df.value) |->
                          [df.value[i] EXCEPT
                              !.DATE = CombineDateTime(df.value[i]).value]],
                      Kept))

\* a result of get_data_by_time, with the tables mdb-export was started for
Exported(tables, result) == [exports |-> tables] @@ result

\* get_data_by_time with the test of the MDB file after the two extractions
get_data_by_time_late_test(env, start_datetime, end_datetime) ==
    LET invoices == filter_table_by_time(env.tool_present, env.INVOICE,
                                         start_datetime, end_datetime)
        sales == filter_table_by_time(env.tool_present, env.SALE,
                                      start_datetime, end_datetime)
    IN  IF invoices.raised # "" THEN Exported(<<"INVOICE">>, invoices)
        ELSE IF sales.raised # "" THEN Exported(<<"INVOICE", "SALE">>, sales)
        ELSE IF ~env.mdb_exists
        THEN Exported(<<"INVOICE", "SALE">>, Raised("FileNotFoundError"))
        ELSE Exported(<<"INVOICE", "SALE">>,
                      Returned([invoices |-> invoices.value,
                                sales |-> sales.value]))

\* get_data_by_time(start_datetime, end_datetime): FileNotFoundError when the
\* MDB file is missing (lines 122-124), else extract_invoices, then
\* extract_sales, each starting mdb-export once; an exception of the first
\* leaves the call before the second
get_data_by_time(env, start_datetime, end_datetime) ==
    IF ~env.mdb_exists
    THEN Exported(<<>>, Raised("FileNotFoundError"))
    ELSE LET invoices == filter_table_by_time(env.tool_present, env.INVOICE,
                                              start_datetime, end_datetime)
             sales == filter_table_by_time(env.tool_present, env.SALE,
                                           start_datetime, end_datetime)
         IN  IF invoices.raised # "" THEN Exported(<<"INVOICE">>, invoices)
             ELSE IF sales.raised # ""
             THEN Exported(<<"INVOICE", "SALE">>, sales)
             ELSE Exported(<<"INVOICE", "SALE">>,
                           Returned([invoices |-> invoices.value,
                                     sales |-> sales.value]))

\* get_monthly_data(year, month): the window it asks of get_data_by_time
get_monthly_data(year, month) ==
    LET next_month == IF month = 12 THEN 1 ELSE month + 1
        next_year == IF month = 12 THEN year + 1 ELSE year
    IN  [start_datetime |-> Stamp(year, month, 1, 14),
         end_datetime |-> Stamp(next_year, next_month, 1, 4)]

\* get_daily_data with end_date on the day itself (no timedelta(days=1))
get_daily_data_same_day(year, month, day) ==
    LET date == [y |-> year, m |-> month, d |-> day]
    IN  [start_datetime |-> At(date, 14),
         end_datetime |-> At(date, 4)]

\* get_daily_data(year, month, day): the window it asks of get_data_by_time
get_daily_data(year, month, day) ==
    LET date == [y |-> year, m |-> month, d |-> day]
    IN  [start_datetime |-> At(date, 14),
         end_datetime |-> At(NextDay(date), 4)]

-----------------------------------------------------------------------------
(* report.py: the Document Renderer *)

\* d.get(key, default)
Get(d, key, default) == IF key \in DOMAIN d THEN d[key] ELSE default

\* create_header: the title and the period of the report
create_header(rd) ==
    <<[name |-> "header", period |-> rd.period.start_date]>>

\* create_summary_section with the growth row for every snapshot that has the
\* key growth, be its value None
create_summary_section_any_growth(rd) ==
    LET inv == rd.invoices
        summary_data ==
            <<[label |-> "Total Revenue", val |-> inv.total_revenue],
              [label |-> "Total Transactions", val |-> inv.total_transactions],
              [label |-> "Average Transaction", val |-> inv.average_transaction],
              [label |-> "Total VAT Collected", val |-> inv.total_vat]>>
    IN  <<[name |-> "summary",
           rows |-> IF "growth" \in DOMAIN rd
                    THEN Append(summary_data,
                                [label |-> "Growth vs Previous Month",
                                 val |-> rd.growth])
                    ELSE summary_data]>>

\* create_summary_section: the four totals, and the growth row when the
\* snapshot has a growth that is not None (lines 78-82)
create_summary_section(rd) ==
    LET inv == rd.invoices
        summary_data ==
            <<[label |-> "Total Revenue", val |-> inv.total_revenue],
              [label |-> "Total Transactions", val |-> inv.total_transactions],
              [label |-> "Average Transaction", val |-> inv.average_transaction],
              [label |-> "Total VAT Collected", val |-> inv.total_vat]>>
    IN  <<[name |-> "summary",
           rows |-> IF "growth" \in DOMAIN rd /\ rd.growth # None
                    THEN Append(summary_data,
                                [label |-> "Growth vs Previous Month",
                                 val |-> rd.growth.tenths])
                    ELSE summary_data]>>

\* the rows of create_payment_section and create_service_section: one per key
\* of the amounts, with counts.get(key, 0) and the share of the revenue
BreakdownRows(breakdown, total_amount) ==
    [k \in DOMAIN breakdown.amounts |->
        [count |-> Get(breakdown.counts, k, 0),
         amount |-> breakdown.amounts[k],
         percentage |-> IF total_amount > 0
                        THEN Quot(breakdown.amounts[k] * 100, total_amount)
                        ELSE Zero]]

create_payment_section(rd) ==
    <<[name |-> "payment",
       rows |-> BreakdownRows(rd.invoices.payment_breakdown,
                              rd.invoices.total_revenue)]>>

create_service_section(rd) ==
    <<[name |-> "service",
       rows |-> BreakdownRows(rd.invoices.service_breakdown,
                              rd.invoices.total_revenue)]>>

\* create_top_items_section: the items in the order of the snapshot, ranked
create_top_items_section(rd) ==
    <<[name |-> "top_items",
       rows |-> [i \in 1..Len(rd.sales.top_items) |->
                    [rank |-> i,
                     item |-> rd.sales.top_items[i].key,
                     qty |-> rd.sales.top_items[i].QTY,
                     revenue |-> rd.sales.top_items[i].AMOUNT,
                     profit |-> rd.sales.top_items[i].PROFIT]]]>>

\* create_category_section: the categories in the order of the snapshot
create_category_section(rd) ==
    <<[name |-> "category",
       rows |-> [i \in 1..Len(rd.sales.category_performance) |->
                    LET cat == rd.sales.category_performance[i]
                    IN  [category |-> cat.key,
                         qty |-> cat.QTY,
                         revenue |-> cat.AMOUNT,
                         profit |-> cat.PROFIT,
                         margin |-> IF cat.AMOUNT > 0
                                    THEN Quot(cat.PROFIT * 100, cat.AMOUNT)
                                    ELSE Zero]]]>>

\* create_invoice_table: one row per invoice of the detail rows
create_invoice_table(df) ==
    <<[name |-> "invoice_table",
       rows |-> [i \in 1..Len(df) |->
                    [date |-> DateOf(df[i].DATE), amount |-> df[i].AMOUNT,
                     vat |-> df[i].VAT]]]>>

\* what a call of the renderer leaves: the document written to output_path
\* (None when nothing was written) and the value returned (the buffer, or None)
Rendered(doc, path) ==
    IF path # ""
    THEN [written |-> doc, returned |-> None]
    ELSE [written |-> None, returned |-> doc]

\* generate_no_sales_pdf(output_path): the note and nothing else (the Spacer
\* above it, like every Spacer of the layouts, is left out of the elements)
generate_no_sales_pdf(path) ==
    Rendered([layout |-> "no_sales",
              elements |-> <<[name |-> "note", text |-> "No sales today."]>>],
             path)

\* the test of lines 463-467
NoTransactions(rd) ==
    \/ Falsy(rd)
    \/ "invoices" \notin DOMAIN rd
    \/ Get(rd.invoices, "total_transactions", 0) = 0

\* generate_pdf as its line 473 has it in a comment: with no transaction it
\* returns None and renders nothing
generate_pdf_return_none(rd, path, detail) ==
    IF NoTransactions(rd)
    THEN [written |-> None, returned |-> None]
    ELSE Rendered(
            [layout |-> "full",
             elements |->
                create_header(rd) \o create_summary_section(rd)
                \o create_payment_section(rd) \o create_service_section(rd)
                \o create_top_items_section(rd) \o create_category_section(rd)
                \o (IF detail # None
                    THEN create_invoice_table(detail.frame) ELSE <<>>)],
            path)

\* generate_pdf(report_data, output_path, data_invoices)
generate_pdf(rd, path, detail) ==
    IF NoTransactions(rd)
    THEN generate_no_sales_pdf(path)
    ELSE Rendered(
            [layout |-> "full",
             elements |->
                create_header(rd) \o create_summary_section(rd)
                \o create_payment_section(rd) \o create_service_section(rd)
                \o create_top_items_section(rd) \o create_category_section(rd)
                \o (IF detail # None
                    THEN create_invoice_table(detail.frame) ELSE <<>>)],
            path)

\* a build that leaves a file already at output_path as it is
WriteFile_keep_existing(fs, path, r) ==
    IF r.written # None /\ path \notin DOMAIN fs
    THEN (path :> r.written) @@ fs
    ELSE fs

\* the file system after the call: the document is at output_path
WriteFile(fs, path, r) ==
    IF r.written # None THEN (path :> r.written) @@ fs ELSE fs

-----------------------------------------------------------------------------
(* email_sender.py: the Delivery Agent *)

\* recipient or config.EMAIL_TO (line 24); "" stands for None
EffectiveRecipient(cfg, recipient) ==
    IF recipient # "" THEN recipient ELSE cfg.EMAIL_TO

\* the check of line 27 with any() for all()
ConfigComplete_any(cfg, recipient) ==
    \/ cfg.EMAIL_FROM # ""
    \/ cfg.EMAIL_PASSWORD # ""
    \/ EffectiveRecipient(cfg, recipient) # ""

\* all([config.EMAIL_FROM, config.EMAIL_PASSWORD, recipient]) (line 27)
ConfigComplete(cfg, recipient) ==
    /\ cfg.EMAIL_FROM # ""
    /\ cfg.EMAIL_PASSWORD # ""
    /\ EffectiveRecipient(cfg, recipient) # ""

\* str.capitalize() of the report types in use
Capitalize(t) ==
    IF t = "monthly" THEN "Monthly" ELSE IF t = "daily" THEN "Daily" ELSE t

\* report_date_str.replace(" ", "_").replace(",", ""), a string being the
\* sequence of its pieces
RECURSIVE FilenameSafe(_)
FilenameSafe(str) ==
    IF str = <<>> THEN <<>>
    ELSE IF Head(str) = " " THEN <<"_">> \o FilenameSafe(Tail(str))
    ELSE IF Head(str) = "," THEN FilenameSafe(Tail(str))
    ELSE <<Head(str)>> \o FilenameSafe(Tail(str))

\* the message of lines 33-62
BuildMessage(cfg, args) ==
    [From |-> cfg.EMAIL_FROM,
     To |-> EffectiveRecipient(cfg, args.recipient),
     Subject |-> <<"Sales Report", Capitalize(args.report_type),
                   args.report_date_str>>,
     attachment |-> args.pdf_buffer,
     filename |-> <<"Sales_Report_", Capitalize(args.report_type), "_">>
                  \o FilenameSafe(args.report_date_str) \o <<".pdf">>]

\* what a network operation of lines 66-75 can end with: "ok" or the class of
\* the exception it raises; only login raises SMTPAuthenticationError
Outcomes(op) ==
    IF op = "login"
    THEN {"ok", "SMTPAuthenticationError", "SMTPException"}
    ELSE IF op = "quit" THEN {"ok", "SMTPException"}
    ELSE {"ok", "SMTPException", "OSError"}

\* the handlers as test_email_connection has them: print and return False
Handle_return_false(e) == Returned(FALSE)

\* the handlers of lines 80-88: each prints and raises the exception again
Handle(e) == Raised(e)

\* the step after a network operation that went well
AfterOp(op) ==
    CASE op = "connect" -> "starttls"
      [] op = "starttls" -> "login"
      [] op = "login" -> "send_message"
      [] op = "send_message" -> "quit"
      [] op = "quit" -> "returned"

\* lines 24-62: the recipient, the check of the configuration, the message
SendValidate ==
    /\ send_pc = "called"
    /\ IF ~ConfigComplete(config, send_args.recipient)
       THEN /\ send_pc' = "raised"
            /\ send_ret' = Raised("ValueError")
            /\ msg' = msg
       ELSE /\ send_pc' = "connect"
            /\ msg' = BuildMessage(config, send_args)
            /\ send_ret' = send_ret
    /\ UNCHANGED <<send_args, net>>
    /\ UNCHANGED <<metrics_vars, call, ret, pdf_vars, run_vars>>

\* one network operation of the try block, and the handler when it raises
SmtpOp(op) ==
    /\ \E outcome \in Outcomes(op) :
        /\ net' = Append(net, [op |-> op, outcome |-> outcome])
        /\ IF outcome = "ok"
           THEN /\ send_pc' = AfterOp(op)
                /\ send_ret' = IF op = "quit" THEN Returned(TRUE) ELSE send_ret
           ELSE /\ send_pc' = "raised"
                /\ send_ret' = Handle(outcome)
    /\ UNCHANGED <<send_args, msg>>
    /\ UNCHANGED <<metrics_vars, call, ret, pdf_vars, run_vars>>

\* smtplib.SMTP(config.SMTP_SERVER, config.SMTP_PORT) (line 67)
SmtpConnect ==
    /\ send_pc = "connect"
    /\ SmtpOp("connect")

\* server.starttls() (line 68)
SmtpStarttls ==
    /\ send_pc = "starttls"
    /\ SmtpOp("starttls")

\* server.login(config.EMAIL_FROM, config.EMAIL_PASSWORD) (line 71)
SmtpLogin ==
    /\ send_pc = "login"
    /\ SmtpOp("login")

\* server.send_message(msg) (line 74)
SmtpSendMessage ==
    /\ send_pc = "send_message"
    /\ SmtpOp("send_message")

\* server.quit() and return True (lines 75-78)
SmtpQuit ==
    /\ send_pc = "quit"
    /\ SmtpOp("quit")


-----------------------------------------------------------------------------
(* config.py and the inputs of the Metrics Engine *)

\* settings.ini, section EMAIL: config.py reads the three values with
\* .get(key, default), so each is the text of the file, which may be empty
Settings == [EMAIL_FROM : {"", "owner@example.com"},
             EMAIL_PASSWORD : {"", "secret"},
             EMAIL_TO : {"", "boss@example.com"}]

CompleteSettings == [EMAIL_FROM |-> "owner@example.com",
                     EMAIL_PASSWORD |-> "secret",
                     EMAIL_TO |-> "boss@example.com"]

\* the values an operator gives the top-N setting
TopCounts == {1, 2}

\* The module config.  config.py as it stands defines no TOP_ITEMS_COUNT: the
\* first set is the module as it stands, the second is the module after the
\* operator added the setting (config.py is the file the operator edits).
ConfigModules(S) == S \cup {[TOP_ITEMS_COUNT |-> n] @@ s : n \in TopCounts, s \in S}

\* the rows of the INVOICE table
InvoiceRows ==
    {[AMOUNT |-> m[1], VAT |-> m[2], SALE_INFO |-> p, C_NO |-> c, DATE |-> t] :
        m \in {<<1, 0>>, <<2, 1>>},
        p \in {"cash", "card", NaN},
        c \in {"dine-in", "delivery"},
        t \in {Stamp(2025, 11, 1, 14), Stamp(2025, 11, 1, 20),
               Stamp(2025, 11, 2, 2)}}

\* the menu: the category of each item
Category(item) == IF item = "cola" THEN "drinks" ELSE "food"

\* the rows of the SALE table
SaleRows ==
    {[INV_NO |-> i, ITEMS |-> it, CATOGERY |-> Category(it),
      QTY |-> m[1], AMOUNT |-> m[2], COST |-> m[3],
      DATE |-> Stamp(2025, 11, 1, 20)] :
        i \in {"i1", "i2"},
        it \in {"pizza", "pasta", "cola"},
        m \in {<<1, 1, 0>>, <<1, 2, 1>>, <<2, 3, 1>>}}

\* a previous snapshot, of which only the revenue is read
Snapshot(revenue) == [invoices |-> [total_revenue |-> revenue]]

NoCall == Returned(<<>>)

\* no document was asked for and none is on disk
PdfIdle ==
    /\ report_data = None
    /\ output_path = ""
    /\ data_invoices = None
    /\ files = EmptyDict

\* send_report_email is not running
EmailIdle ==
    /\ send_args = None
    /\ send_pc = "idle"
    /\ msg = None
    /\ net = <<>>
    /\ send_ret = NoCall

\* the exit status of a process that has not exited
NotExited == [none |-> TRUE]

\* no entry point is running
RunIdle ==
    /\ machine = None
    /\ exports = <<>>
    /\ entry = ""
    /\ pc = ""
    /\ today = None
    /\ window = None
    /\ trail = <<>>
    /\ faults = <<>>
    /\ exit_code = NotExited

-----------------------------------------------------------------------------
(* The Metrics Engine called on its own *)

InitInvoices ==
    /\ config = CompleteSettings
    /\ invoices_df \in SeqsUpTo(InvoiceRows, MaxRows)
    /\ sales_df = <<>>
    /\ previous_data = None
    /\ call = ""
    /\ ret = NoCall
    /\ PdfIdle
    /\ EmailIdle
    /\ RunIdle

AnalyzeInvoices ==
    /\ call = ""
    /\ call' = "analyze_invoices"
    /\ ret' = Returned(analyze_invoices(invoices_df))
    /\ UNCHANGED <<metrics_vars, pdf_vars, email_vars, run_vars>>

SpecInvoices == InitInvoices /\ [][AnalyzeInvoices]_vars

InitSales ==
    /\ config \in ConfigModules({CompleteSettings})
    /\ invoices_df = <<>>
    /\ sales_df \in SeqsUpTo(SaleRows, MaxRows)
    /\ previous_data = None
    /\ call = ""
    /\ ret = NoCall
    /\ PdfIdle
    /\ EmailIdle
    /\ RunIdle

AnalyzeSales ==
    /\ call = ""
    /\ call' = "analyze_sales"
    /\ \E by_item \in SortedDesc(Groups(sales_df, "ITEMS")),
          by_category \in SortedDesc(Groups(sales_df, "CATOGERY")) :
            ret' = analyze_sales(sales_df, config, by_item, by_category)
    /\ UNCHANGED <<metrics_vars, pdf_vars, email_vars, run_vars>>

SpecSales == InitSales /\ [][AnalyzeSales]_vars

\* the rows the snapshot is built from: fewer labels, the same amounts and dates
ReportInvoiceRows ==
    {r \in InvoiceRows : r.SALE_INFO = "cash" /\ r.C_NO = "dine-in"}

ReportSaleRows ==
    {r \in SaleRows : r.INV_NO = "i1" /\ r.QTY = 1 /\ r.ITEMS # "pasta"}

InitReport ==
    /\ config \in ConfigModules({CompleteSettings})
    /\ invoices_df \in SeqsUpTo(ReportInvoiceRows, MaxRows)
    /\ sales_df \in SeqsUpTo(ReportSaleRows, MaxRows)
    /\ previous_data \in {None, EmptyDict, Snapshot(0), Snapshot(3)}
    /\ call = ""
    /\ ret = NoCall
    /\ PdfIdle
    /\ EmailIdle
    /\ RunIdle

GenerateReportData ==
    /\ call = ""
    /\ call' = "generate_report_data"
    /\ \E by_item \in SortedDesc(Groups(sales_df, "ITEMS")),
          by_category \in SortedDesc(Groups(sales_df, "CATOGERY")) :
            ret' = generate_report_data(invoices_df, sales_df, previous_data,
                                        config, by_item, by_category)
    /\ UNCHANGED <<metrics_vars, pdf_vars, email_vars, run_vars>>

SpecReport == InitReport /\ [][GenerateReportData]_vars

\* The sorts of pandas have no source of chance: on the frame of the first
\* call they give, in the second call, the order they gave in the first.
SameOrder(cfg, by_item, by_category) ==
    ret.raised = "" =>
        /\ by_category = ret.value.sales.category_performance
        /\ Head_n(by_item, cfg.TOP_ITEMS_COUNT) = ret.value.sales.top_items

\* a second call of generate_report_data with the arguments of the first
GenerateReportDataAgain ==
    /\ call = "generate_report_data"
    /\ call' = "generate_report_data again"
    /\ \E by_item \in SortedDesc(Groups(sales_df, "ITEMS")),
          by_category \in SortedDesc(Groups(sales_df, "CATOGERY")) :
            /\ SameOrder(config, by_item, by_category)
            /\ ret' = generate_report_data(invoices_df, sales_df, previous_data,
                                           config, by_item, by_category)
    /\ UNCHANGED <<metrics_vars, pdf_vars, email_vars, run_vars>>

NextRepeat ==
    \/ GenerateReportData
    \/ GenerateReportDataAgain

\* the two calls, with no previous snapshot or with one of revenue 3
InitRepeat ==
    /\ InitReport
    /\ previous_data \in {None, Snapshot(3)}

SpecRepeat == InitRepeat /\ [][NextRepeat]_vars

\* the revenues of the two snapshots handed to calculate_growth: with 16 as
\* the previous revenue the growth can be a tie between two tenths
GrowthRevenues == {0, 1, 2, 3, 4, 7, 16, 1000, 1100}

\* calculate_growth called on its own, with the snapshot of the period in
\* report_data, and generate_report_data called with or without a previous
\* snapshot
InitGrowth ==
    /\ config \in ConfigModules({CompleteSettings})
    /\ invoices_df \in SeqsUpTo(ReportInvoiceRows, 1)
    /\ sales_df = <<>>
    /\ previous_data \in {None, EmptyDict} \cup
                          {Snapshot(p) : p \in GrowthRevenues}
    /\ call = ""
    /\ ret = NoCall
    /\ report_data \in {Snapshot(c) : c \in GrowthRevenues}
    /\ output_path = ""
    /\ data_invoices = None
    /\ files = EmptyDict
    /\ EmailIdle
    /\ RunIdle

CalculateGrowth ==
    /\ call = ""
    /\ call' = "calculate_growth"
    /\ ret' = Returned(calculate_growth(report_data, previous_data))
    /\ UNCHANGED <<metrics_vars, pdf_vars, email_vars, run_vars>>

NextGrowth ==
    \/ CalculateGrowth
    \/ GenerateReportData

SpecGrowth == InitGrowth /\ [][NextGrowth]_vars

-----------------------------------------------------------------------------
(* The Document Renderer called on its own *)

\* the snapshots generate_report_data returns for the frames of the model,
\* where config defines the top-N
Snapshots ==
    UNION {
        {generate_report_data(inv, sales, prev,
                              [TOP_ITEMS_COUNT |-> 1] @@ CompleteSettings,
                              by_item, by_category).value :
            inv \in SeqsUpTo(ReportInvoiceRows, MaxRows),
            prev \in {None, Snapshot(0), Snapshot(3)},
            by_item \in SortedDesc(Groups(sales, "ITEMS")),
            by_category \in SortedDesc(Groups(sales, "CATOGERY"))} :
        sales \in {<<>>} \cup {<<r>> : r \in ReportSaleRows}}

\* what a caller can hand to generate_pdf: a snapshot, None, an empty dict, a
\* dict with no invoices section, a dict whose invoices section has no count
PdfInputs ==
    Snapshots \cup
    {None, EmptyDict, [period |-> [start_date |-> NaT, end_date |-> NaT]],
     [invoices |-> EmptyDict]}

InitPdf ==
    /\ config = CompleteSettings
    /\ invoices_df = <<>>
    /\ sales_df = <<>>
    /\ previous_data = None
    /\ call = ""
    /\ ret = NoCall
    /\ report_data \in PdfInputs
    /\ output_path \in {"", "report.pdf"}
    /\ data_invoices \in {None} \cup
          {[frame |-> f] : f \in SeqsUpTo(ReportInvoiceRows, 1)}
    /\ files = EmptyDict
    /\ EmailIdle
    /\ RunIdle

GeneratePdf ==
    /\ call = ""
    /\ call' = "generate_pdf"
    /\ LET r == generate_pdf(report_data, output_path, data_invoices)
       IN  /\ ret' = Returned(r.returned)
           /\ files' = WriteFile(files, output_path, r)
    /\ UNCHANGED <<metrics_vars, report_data, output_path, data_invoices,
                   email_vars, run_vars>>

SpecPdf == InitPdf /\ [][GeneratePdf]_vars

-----------------------------------------------------------------------------
(* The Delivery Agent called on its own *)

\* the two documents of the renderer
Documents ==
    {generate_no_sales_pdf("").returned,
     [layout |-> "full", elements |-> <<>>]}

SendArgs ==
    [pdf_buffer : Documents,
     report_date_str : {<<"November", " ", "2025">>,
                        <<"March", " ", "08", ",", " ", "2025">>},
     recipient : {"", "other@example.com"},
     report_type : {"monthly", "daily"}]

InitEmail ==
    /\ config \in Settings
    /\ invoices_df = <<>>
    /\ sales_df = <<>>
    /\ previous_data = None
    /\ call = ""
    /\ ret = NoCall
    /\ PdfIdle
    /\ send_args \in SendArgs
    /\ send_pc = "called"
    /\ msg = None
    /\ net = <<>>
    /\ send_ret = NoCall
    /\ RunIdle

NextEmail ==
    \/ SendValidate
    \/ SmtpConnect
    \/ SmtpStarttls
    \/ SmtpLogin
    \/ SmtpSendMessage
    \/ SmtpQuit

SpecEmail == InitEmail /\ [][NextEmail]_vars

-----------------------------------------------------------------------------
(* run_daily.py, main.py, run_monthly.py: the entry points *)

\* get_yesterday() of run_daily.py
get_yesterday(now) == PrevDay(now)

\* get_previous_month() of main.py: the month of the day before the 1st
get_previous_month(now) ==
    LET first_of_month == [now EXCEPT !.d = 1]
        last_month == PrevDay(first_of_month)
    IN  [year |-> last_month.y, month |-> last_month.m]

\* get_current_month() of run_monthly.py
get_current_month(now) == [year |-> now.y, month |-> now.m]

\* whether get_data_by_time takes the keyword arguments of a call: its
\* parameters are start_datetime and end_datetime (extract.py:111-114)
KeywordsAccepted(kwargs) == kwargs \subseteq {"start_datetime", "end_datetime"}

\* sys.exit(n), return n
Exit(n) == [status |-> n]

\* the except clauses of the three main(): FileNotFoundError and Exception
\* give return 1 (main.py:86-94, run_daily.py:67-70, run_monthly.py:69-72);
\* SystemExit is no Exception and ends the process with its own status 1
ExitOnRaise(exc) == Exit(1)

\* the except clause around the delivery in run_daily.py:59-60 and
\* run_monthly.py:61-62 prints the exception; main() goes on to return 0
ExitAfterDeliveryFailed(ent, exc) ==
    IF ent = "main" THEN ExitOnRaise(exc) ELSE Exit(0)

\* the run ends on exception exc raised in stage
Abort(stage, exc) ==
    /\ faults' = Append(faults, [stage |-> stage, exc |-> exc, then |-> "exit"])
    /\ exit_code' = ExitOnRaise(exc)
    /\ pc' = "exited"

\* the period the run reports on
ReportDay == get_yesterday(today)

ReportMonth ==
    IF entry = "main" THEN get_previous_month(today) ELSE get_current_month(today)

\* run_daily.main going from the window straight to generate_report_data
RunDailyStart_unextracted ==
    /\ entry = "run_daily"
    /\ pc = "start"
    /\ window' = get_daily_data(ReportDay.y, ReportDay.m, ReportDay.d)
    /\ pc' = "analyze"
    /\ UNCHANGED <<metrics_vars, call, ret, pdf_vars, email_vars,
                   machine, exports, entry, today, trail, faults, exit_code>>

\* run_daily.main, lines 31-36: yesterday, and the call of get_daily_data
RunDailyStart ==
    /\ entry = "run_daily"
    /\ pc = "start"
    /\ window' = get_daily_data(ReportDay.y, ReportDay.m, ReportDay.d)
    /\ trail' = Append(trail, "extract")
    /\ pc' = "get_data_by_time"
    /\ UNCHANGED <<metrics_vars, call, ret, pdf_vars, email_vars,
                   machine, exports, entry, today, faults, exit_code>>

\* main.main, lines 40-48: the previous month, and the call of get_monthly_data
MainStart ==
    /\ entry = "main"
    /\ pc = "start"
    /\ window' = get_monthly_data(ReportMonth.year, ReportMonth.month)
    /\ trail' = Append(trail, "extract")
    /\ pc' = "get_data_by_time"
    /\ UNCHANGED <<metrics_vars, call, ret, pdf_vars, email_vars,
                   machine, exports, entry, today, faults, exit_code>>

\* run_monthly.main, lines 31-36: the current month, and the call
\* get_data_by_time(year=year, month=month), which is a TypeError
RunMonthlyStart ==
    /\ entry = "run_monthly"
    /\ pc = "start"
    /\ ~KeywordsAccepted({"year", "month"})
    /\ trail' = Append(trail, "extract")
    /\ Abort("extract", "TypeError")
    /\ UNCHANGED <<metrics_vars, call, ret, pdf_vars, email_vars,
                   machine, exports, entry, today, window>>

\* the row of a table stamped ts
InvoiceAt(ts) ==
    [AMOUNT |-> 2, VAT |-> 1, SALE_INFO |-> "cash", C_NO |-> "dine-in",
     DATE |-> DateCell(ts), TIME |-> TimeCell(ts)]

SaleAt(ts) ==
    [INV_NO |-> "i1", ITEMS |-> "pizza", CATOGERY |-> Category("pizza"),
     QTY |-> 1, AMOUNT |-> 2, COST |-> 1,
     DATE |-> DateCell(ts), TIME |-> TimeCell(ts)]

\* the stamps of the rows of the backup: the two ends of the window asked
\* for, the hour before it and the hour after it
StampsAround(w) ==
    {w.start_datetime, w.end_datetime,
     [w.start_datetime EXCEPT !.t = 13], [w.end_datetime EXCEPT !.t = 5]}

\* the machines a run can be on: the MDB file and mdb-export, each there or not
Machines == [mdb_exists : BOOLEAN, tool_present : BOOLEAN]

\* what get_data_by_time finds on machine mach: the rows of the two tables
\* (none where the file or the tool is missing)
Environments(mach, w) ==
    IF ~mach.mdb_exists \/ ~mach.tool_present
    THEN {[INVOICE |-> <<>>, SALE |-> <<>>] @@ mach}
    ELSE {[INVOICE |-> inv, SALE |-> sale] @@ mach :
            inv \in SeqsUpTo({InvoiceAt(ts) : ts \in StampsAround(w)}, MaxRows),
            sale \in SeqsUpTo({SaleAt(w.start_datetime),
                               SaleAt([w.end_datetime EXCEPT !.t = 5])}, 1)}

\* get_data_by_time, and in main.main the test of lines 50-52: sys.exit(1)
\* when no invoice was found
GetDataByTime ==
    /\ pc = "get_data_by_time"
    /\ \E env \in Environments(machine, window) :
        LET data == get_data_by_time(env, window.start_datetime,
                                     window.end_datetime)
        IN  /\ exports' = exports \o data.exports
            /\ IF data.raised # ""
               THEN /\ Abort("extract", data.raised)
                    /\ UNCHANGED <<invoices_df, sales_df>>
               ELSE /\ invoices_df' = data.value.invoices
                    /\ sales_df' = data.value.sales
                    /\ IF entry = "main" /\ Len(data.value.invoices) = 0
                       THEN Abort("extract", "SystemExit")
                       ELSE /\ pc' = "analyze"
                            /\ UNCHANGED <<faults, exit_code>>
    /\ UNCHANGED <<config, previous_data, call, ret, pdf_vars, email_vars,
                   machine, entry, today, window, trail>>

\* the call generate_report_data(data["invoices"], data["sales"])
Analyze ==
    /\ pc = "analyze"
    /\ trail' = Append(trail, "analyze")
    /\ \E by_item \in SortedDesc(Groups(sales_df, "ITEMS")),
          by_category \in SortedDesc(Groups(sales_df, "CATOGERY")) :
        LET r == generate_report_data(invoices_df, sales_df, None, config,
                                      by_item, by_category)
        IN  IF r.raised # ""
            THEN /\ Abort("analyze", r.raised)
                 /\ UNCHANGED report_data
            ELSE /\ report_data' = r.value
                 /\ pc' = "render"
                 /\ UNCHANGED <<faults, exit_code>>
    /\ UNCHANGED <<metrics_vars, call, ret, output_path, data_invoices, files,
                   email_vars, machine, exports, entry, today, window>>

\* the output_path of the call of generate_pdf: none in main.main
ReportPath ==
    IF entry = "main" THEN ""
    ELSE IF entry = "run_daily"
    THEN "./reports/daily/daily-report-" \o ToString(ReportDay.m) \o "-"
         \o ToString(ReportDay.d) \o ".pdf"
    ELSE "./reports/monthly/monthly-report-" \o ToString(ReportMonth.month)
         \o ".pdf"

\* the call of generate_pdf: to a buffer in main.main, to a file with the
\* invoices as detail rows in the two others; writing the file can fail
Render ==
    /\ pc = "render"
    /\ trail' = Append(trail, "render")
    /\ output_path' = ReportPath
    /\ data_invoices' = IF entry = "main" THEN None ELSE [frame |-> invoices_df]
    /\ \E disk_ok \in BOOLEAN :
        IF ~disk_ok /\ ReportPath # ""
        THEN /\ Abort("render", "OSError")
             /\ UNCHANGED <<files, ret>>
        ELSE LET r == generate_pdf(report_data, output_path', data_invoices')
             IN  /\ files' = WriteFile(files, output_path', r)
                 /\ ret' = Returned(r.returned)
                 /\ pc' = "deliver"
                 /\ UNCHANGED <<faults, exit_code>>
    /\ UNCHANGED <<metrics_vars, call, report_data, email_vars,
                   machine, exports, entry, today, window>>

\* the call of send_report_email: with the buffer in main.main, with the
\* file read back in the two others
Deliver ==
    /\ pc = "deliver"
    /\ trail' = Append(trail, "deliver")
    /\ send_args' =
         IF entry = "main"
         THEN [pdf_buffer |-> ret.value,
               report_date_str |-> MonthLabel(ReportMonth.year, ReportMonth.month),
               recipient |-> "", report_type |-> "monthly"]
         ELSE IF entry = "run_daily"
         THEN [pdf_buffer |-> files[output_path],
               report_date_str |-> DayLabel(ReportDay),
               recipient |-> "", report_type |-> "daily"]
         ELSE [pdf_buffer |-> files[output_path],
               report_date_str |-> MonthLabel(ReportMonth.year, ReportMonth.month),
               recipient |-> "", report_type |-> "monthly"]
    /\ send_pc' = "called"
    /\ pc' = "sending"
    /\ UNCHANGED <<metrics_vars, call, ret, pdf_vars, msg, net, send_ret,
                   machine, exports, entry, today, window, faults, exit_code>>

\* after send_report_email: return 0, or the except clause that caught what
\* it raised
Finish ==
    /\ pc = "sending"
    /\ send_pc \in {"returned", "raised"}
    /\ pc' = "exited"
    /\ IF send_pc = "raised"
       THEN /\ exit_code' = ExitAfterDeliveryFailed(entry, send_ret.raised)
            /\ faults' = Append(faults,
                            [stage |-> "deliver", exc |-> send_ret.raised,
                             then |-> IF entry = "main" THEN "exit" ELSE "printed"])
       ELSE /\ exit_code' = Exit(0)
            /\ UNCHANGED faults
    /\ UNCHANGED <<metrics_vars, call, ret, pdf_vars, email_vars,
                   machine, exports, entry, today, window, trail>>

\* the report an earlier run left in the reports directory: the file names
\* carry the month and the day but no year, so the run of a year later writes
\* to the same path
EarlierReport ==
    [layout |-> "full",
     elements |-> <<[name |-> "header", text |-> "an earlier period"]>>]

\* the days on which the runs of the model start
RunDates ==
    {[y |-> 2024, m |-> 1, d |-> 1], [y |-> 2024, m |-> 3, d |-> 1],
     [y |-> 2024, m |-> 12, d |-> 31], [y |-> 2025, m |-> 11, d |-> 4]}

\* the settings of the runs: complete, or with no password
RunSettings == {CompleteSettings, [CompleteSettings EXCEPT !.EMAIL_PASSWORD = ""]}

Init ==
    /\ config \in ConfigModules(RunSettings)
    /\ invoices_df = <<>>
    /\ sales_df = <<>>
    /\ previous_data = None
    /\ call = ""
    /\ ret = NoCall
    /\ report_data = None
    /\ output_path = ""
    /\ data_invoices = None
    /\ EmailIdle
    /\ machine \in Machines
    /\ exports = <<>>
    /\ entry \in {"run_daily", "main", "run_monthly"}
    /\ pc = "start"
    /\ today \in RunDates
    /\ files \in IF ReportPath = ""
                 THEN {EmptyDict}
                 ELSE {EmptyDict, ReportPath :> EarlierReport}
    /\ window = None
    /\ trail = <<>>
    /\ faults = <<>>
    /\ exit_code = NotExited

Next ==
    \/ RunDailyStart
    \/ MainStart
    \/ RunMonthlyStart
    \/ GetDataByTime
    \/ Analyze
    \/ Render
    \/ Deliver
    \/ SendValidate
    \/ SmtpConnect
    \/ SmtpStarttls
    \/ SmtpLogin
    \/ SmtpSendMessage
    \/ SmtpQuit
    \/ Finish

Spec == Init /\ [][Next]_vars

\* every day of two years, one of them a leap year
AllDates ==
    {[y |-> y, m |-> m, d |-> d] :
        y \in {2024, 2025}, m \in 1..12, d \in 1..31} \cap
    {date \in [y : {2024, 2025}, m : 1..12, d : 1..31] :
        date.d <= DaysIn(date.y, date.m)}

\* the first step of each entry point, on every day
InitWindow ==
    /\ config = CompleteSettings
    /\ invoices_df = <<>>
    /\ sales_df = <<>>
    /\ previous_data = None
    /\ call = ""
    /\ ret = NoCall
    /\ PdfIdle
    /\ EmailIdle
    /\ machine = [mdb_exists |-> TRUE, tool_present |-> TRUE]
    /\ exports = <<>>
    /\ entry \in {"run_daily", "main", "run_monthly"}
    /\ pc = "start"
    /\ today \in AllDates
    /\ window = None
    /\ trail = <<>>
    /\ faults = <<>>
    /\ exit_code = NotExited

NextWindow ==
    \/ RunDailyStart
    \/ MainStart
    \/ RunMonthlyStart

SpecWindow == InitWindow /\ [][NextWindow]_vars

-----------------------------------------------------------------------------
(* filter_table_by_time called on its own *)

\* the bounds a caller may hand over
FilterStart == Stamp(2025, 11, 1, 14)

FilterEnd == Stamp(2025, 11, 2, 5)

\* the rows of the INVOICE table: stamped at each bound, one hour outside each
\* bound and between the two, and rows whose DATE or TIME cell is not a date
FilterRows ==
    {InvoiceAt(ts) : ts \in {FilterStart, FilterEnd, Stamp(2025, 11, 1, 13),
                             Stamp(2025, 11, 2, 6), Stamp(2025, 11, 1, 20)}}
    \cup {[InvoiceAt(FilterStart) EXCEPT !.DATE = Unparseable],
          [InvoiceAt(FilterStart) EXCEPT !.TIME = Unparseable]}

InitFilter ==
    /\ config = CompleteSettings
    /\ invoices_df = <<>>
    /\ sales_df = <<>>
    /\ previous_data = None
    /\ call = ""
    /\ ret = NoCall
    /\ PdfIdle
    /\ EmailIdle
    /\ machine \in {[mdb_exists |-> TRUE, tool_present |-> tool,
                      INVOICE |-> table] :
                        tool \in BOOLEAN,
                        table \in SeqsUpTo(FilterRows, MaxRows)}
    /\ exports = <<>>
    /\ entry = ""
    /\ pc = ""
    /\ today = None
    /\ window \in [start_datetime : {None, FilterStart},
                    end_datetime : {None, FilterEnd}]
    /\ trail = <<>>
    /\ faults = <<>>
    /\ exit_code = NotExited

\* the call filter_table_by_time(MDB_FILE_PATH, "INVOICE", start, end)
FilterTableByTime ==
    /\ call = ""
    /\ call' = "filter_table_by_time"
    /\ ret' = filter_table_by_time(machine.tool_present, machine.INVOICE,
                                   window.start_datetime, window.end_datetime)
    /\ exports' = <<"INVOICE">>
    /\ UNCHANGED <<config, invoices_df, sales_df, previous_data, pdf_vars,
                   email_vars, machine, entry, pc, today, window, trail,
                   faults, exit_code>>

SpecFilter == InitFilter /\ [][FilterTableByTime]_vars

-----------------------------------------------------------------------------
(* The claims *)

\* the sum of column col over the rows of df, row by row
RECURSIVE Total(_, _)
Total(df, col) ==
    IF Len(df) = 0 THEN 0
    ELSE Total(SubSeq(df, 1, Len(df) - 1), col) + df[Len(df)][col]

\* the number of entries a top-N of n leaves of k groups
Min(n, k) == IF n < k THEN n ELSE k

\* C1: for every invoice collection analyze_invoices returns, without a
\* fault, total_revenue = the sum of AMOUNT, total_transactions = the number
\* of rows, total_vat = the sum of VAT, and average_transaction =
\* total_revenue / total_transactions when there is a row and 0 when there is
\* none (then all four values are 0).
C1_InvoiceTotals ==
    call = "analyze_invoices" =>
        /\ ret.raised = ""
        /\ ret.value.total_revenue = Total(invoices_df, "AMOUNT")
        /\ ret.value.total_transactions = Len(invoices_df)
        /\ ret.value.total_vat = Total(invoices_df, "VAT")
        /\ LET avg == ret.value.average_transaction
           IN  /\ avg.den # 0
               /\ IF Len(invoices_df) > 0
                  THEN avg.num * Len(invoices_df)
                         = Total(invoices_df, "AMOUNT") * avg.den
                  ELSE avg.num = 0
        /\ invoices_df = <<>> =>
              /\ ret.value.total_revenue = 0
              /\ ret.value.total_transactions = 0
              /\ ret.value.total_vat = 0

\* C1, witness: two invoices of 1 and 2 with VAT 0 and 1 were analysed: the
\* revenue is 3, the average 3/2, the VAT 1
C1_Witness ==
    /\ call = "analyze_invoices"
    /\ Len(invoices_df) = 2
    /\ ret.value.total_revenue = 3
    /\ ret.value.average_transaction = Quot(3, 2)
    /\ ret.value.total_vat = 1

\* C2: for every line-item collection analyze_sales returns top_items as the
\* per-item groups (summed QTY, AMOUNT, COST) sorted descending by summed
\* AMOUNT and cut to the top-N of the configuration, 10 when the
\* configuration sets none: min(N, number of distinct items) entries, and no
\* item left out has a larger summed AMOUNT than an item kept.
C2_TopItems ==
    call = "analyze_sales" =>
        /\ ret.raised = ""
        /\ LET top == ret.value.top_items
               N == IF "TOP_ITEMS_COUNT" \in DOMAIN config
                    THEN config.TOP_ITEMS_COUNT ELSE 10
               all == Groups(sales_df, "ITEMS")
               kept == {top[i] : i \in 1..Len(top)}
           IN  /\ Len(top) = Min(N, Cardinality(Keys(sales_df, "ITEMS")))
               /\ kept \subseteq all
               /\ Cardinality(kept) = Len(top)
               /\ \A i \in 1..Len(top) :
                     LET IsItem(r) == r.ITEMS = top[i].key
                         rows == SelectSeq(sales_df, IsItem)
                     IN  /\ top[i].QTY = Total(rows, "QTY")
                         /\ top[i].AMOUNT = Total(rows, "AMOUNT")
                         /\ top[i].COST = Total(rows, "COST")
               /\ \A i, j \in 1..Len(top) :
                     i < j => top[i].AMOUNT >= top[j].AMOUNT
               /\ \A g \in all \ kept : \A k \in kept : g.AMOUNT <= k.AMOUNT

\* C3: generate_report_data called with no invoice and no line item completes
\* and returns a snapshot whose total_transactions is 0.
C3_EmptyInputReturns ==
    (call = "generate_report_data" /\ invoices_df = <<>> /\ sales_df = <<>>) =>
        /\ ret.raised = ""
        /\ ret.value.invoices.total_transactions = 0

\* the run is over
Exited == pc = "exited"

Ordinal(date) ==
    LET leap == (date.y % 4 = 0 /\ date.y % 100 # 0) \/ date.y % 400 = 0
        before == <<0, 31, 59, 90, 120, 151, 181, 212, 243, 273, 304, 334>>
        y1 == date.y - 1
    IN  365 * y1 + (y1 \div 4) - (y1 \div 100) + (y1 \div 400)
        + before[date.m] + (IF leap /\ date.m > 2 THEN 1 ELSE 0) + date.d

\* C5: every monthly entry point requests the window [1st of the month 14:00,
\* 1st of the following month 04:00]: main.main for the month before today's
\* (December of the previous year in January), run_monthly.main for today's
\* month; a December window ends on 1 January of the next year.
C5_MonthlyWindow ==
    (entry \in {"main", "run_monthly"} /\ pc # "start") =>
        LET this == IF entry = "run_monthly" THEN <<today.y, today.m>>
                    ELSE IF today.m = 1 THEN <<today.y - 1, 12>>
                    ELSE <<today.y, today.m - 1>>
            following == IF this[2] = 12 THEN <<this[1] + 1, 1>>
                         ELSE <<this[1], this[2] + 1>>
        IN  window = [start_datetime |-> Stamp(this[1], this[2], 1, 14),
                      end_datetime |-> Stamp(following[1], following[2], 1, 4)]

\* C6: the daily entry point requests the business-day window of yesterday:
\* it starts at 14:00 of the day before today and ends at 04:00 of the
\* calendar day after that one, also across the end of a month or a year.
C6_DailyWindow ==
    (entry = "run_daily" /\ pc # "start") =>
        /\ window.start_datetime.t = 14
        /\ Ordinal(DateOf(window.start_datetime)) = Ordinal(today) - 1
        /\ window.end_datetime.t = 4
        /\ Ordinal(DateOf(window.end_datetime))
              = Ordinal(DateOf(window.start_datetime)) + 1
        /\ DateOf(window.end_datetime) = today

\* C6, witness: on 1 January 2025 the daily run asked for 31 December 2024
\* 14:00 to 1 January 2025 04:00
C6_Witness ==
    /\ entry = "run_daily"
    /\ pc = "get_data_by_time"
    /\ today = [y |-> 2025, m |-> 1, d |-> 1]
    /\ window = [start_datetime |-> Stamp(2024, 12, 31, 14),
                 end_datetime |-> Stamp(2025, 1, 1, 4)]

\* the document a call of generate_pdf emitted: the buffer it returned, or
\* the file at output_path; None when there is neither
Emitted ==
    IF output_path = "" THEN ret.value ELSE Get(files, output_path, None)

\* C7: generate_pdf emits the minimal "no sales" document, and never the full
\* layout, whenever total_transactions of the snapshot is 0 or the snapshot is
\* empty or has no invoices section; it emits the full layout whenever
\* total_transactions > 0.
C7_NoSalesIffZeroTransactions ==
    call = "generate_pdf" =>
        /\ ret.raised = ""
        /\ "layout" \in DOMAIN Emitted
        /\ LET empty == report_data = None \/ report_data = EmptyDict
               count == IF ~empty /\ "invoices" \in DOMAIN report_data
                           /\ "total_transactions" \in DOMAIN report_data.invoices
                        THEN report_data.invoices.total_transactions
                        ELSE -1
           IN  /\ (empty \/ "invoices" \notin DOMAIN report_data \/ count = 0)
                     => /\ Emitted.layout = "no_sales"
                        /\ Len(Emitted.elements) = 1
                        /\ Emitted.elements[1].name = "note"
               /\ count > 0
                     => /\ Emitted.layout = "full"
                        /\ Emitted.elements[1].name = "header"

\* C7, witness: a snapshot built from no invoice (total_transactions = 0, all
\* sections present) was rendered to a file as the "no sales" document
C7_Witness ==
    /\ call = "generate_pdf"
    /\ report_data \in Snapshots
    /\ report_data.invoices.total_transactions = 0
    /\ output_path = "report.pdf"
    /\ files[output_path].layout = "no_sales"

\* the extraction of the run returned, and returned no invoice
FoundNoInvoice ==
    /\ pc \notin {"", "start", "get_data_by_time"}
    /\ invoices_df = <<>>
    /\ \A i \in 1..Len(faults) :
          faults[i].stage = "extract" => faults[i].exc = "SystemExit"

\* C8: a run that finds no invoice in its window does not treat that as a
\* fault: run_daily.main and run_monthly.main go on to the "no sales"
\* document (no failure in the analysis, and the document rendered is the
\* note), main.main stops with a non-zero status before any analysis,
\* rendering or delivery.
C8_EmptyPeriodNotAFault ==
    FoundNoInvoice =>
        IF entry = "main"
        THEN /\ Exited
             /\ exit_code.status # 0
             /\ trail = <<"extract">>
             /\ report_data = None
             /\ files = EmptyDict
             /\ send_pc = "idle"
        ELSE /\ \A i \in 1..Len(faults) :
                   faults[i].stage \notin {"extract", "analyze"}
             /\ pc \in {"deliver", "sending"} =>
                   /\ output_path \in DOMAIN files
                   /\ files[output_path].layout = "no_sales"
             /\ (Exited /\ \A i \in 1..Len(faults) : faults[i].stage # "render") =>
                   /\ output_path \in DOMAIN files
                   /\ files[output_path].layout = "no_sales"

\* C9: send_report_email fails with a configuration error before any network
\* action (no SMTP connection, STARTTLS, login or send is attempted) whenever
\* the sender address, the password or the effective recipient (the argument,
\* else config.EMAIL_TO) is missing or empty.
C9_ConfigErrorBeforeNetwork ==
    (/\ send_pc # "idle"
     /\ \/ config.EMAIL_FROM = ""
        \/ config.EMAIL_PASSWORD = ""
        \/ (send_args.recipient = "" /\ config.EMAIL_TO = ""))
    => /\ net = <<>>
       /\ send_pc \in {"called", "raised"}
       /\ send_pc = "raised" => send_ret.raised = "ValueError"

\* C9, witness: the password is empty, the rest is set, and the call ended
\* with the configuration error, nothing attempted on the network
C9_Witness ==
    /\ send_pc = "raised"
    /\ config.EMAIL_FROM # ""
    /\ config.EMAIL_PASSWORD = ""
    /\ config.EMAIL_TO # ""
    /\ send_ret.raised = "ValueError"
    /\ net = <<>>

\* the last network operation that send_report_email attempted
LastOp == net[Len(net)]

\* C10: send_report_email reports three failure kinds that a caller can tell
\* apart: incomplete configuration (ValueError), authentication failure
\* (SMTPAuthenticationError) and other transport failure (any other class);
\* each is raised to the caller, and True is returned only after the message
\* was sent.
C10_DistinctFailureKinds ==
    /\ send_pc = "raised" =>
          /\ send_ret.raised # ""
          /\ send_ret.raised = "ValueError"
                <=> (/\ net = <<>>
                     /\ \/ config.EMAIL_FROM = ""
                        \/ config.EMAIL_PASSWORD = ""
                        \/ (send_args.recipient = "" /\ config.EMAIL_TO = ""))
          /\ send_ret.raised = "SMTPAuthenticationError"
                <=> (net # <<>> /\ LastOp.outcome = "SMTPAuthenticationError")
          /\ send_ret.raised \notin {"ValueError", "SMTPAuthenticationError"}
                <=> (net # <<>> /\ LastOp.outcome \in {"SMTPException", "OSError"})
    /\ (net # <<>> /\ LastOp.outcome # "ok") =>
          (send_pc = "raised" /\ send_ret.raised = LastOp.outcome)
    /\ send_pc = "returned" =>
          /\ send_ret = Returned(TRUE)
          /\ \E i \in 1..Len(net) :
                net[i] = [op |-> "send_message", outcome |-> "ok"]
    /\ send_pc \notin {"returned", "raised"} => send_ret = NoCall

\* C10, witness: the server rejected the login and the caller got
\* SMTPAuthenticationError
C10_Witness ==
    /\ send_pc = "raised"
    /\ Len(net) = 3
    /\ LastOp = [op |-> "login", outcome |-> "SMTPAuthenticationError"]
    /\ send_ret.raised = "SMTPAuthenticationError"

\* C11: get_data_by_time fails with FileNotFoundError when the MDB file is
\* missing, before mdb-export is started for any table; it fails with
\* RuntimeError when mdb-export is not installed; in both cases the run ends
\* there with a non-zero status and the extraction is not tried again.
C11_ExtractionFailures ==
    (window # None /\ pc # "get_data_by_time") =>
        /\ ~machine.mdb_exists =>
              /\ exports = <<>>
              /\ faults = <<[stage |-> "extract", exc |-> "FileNotFoundError",
                             then |-> "exit"]>>
              /\ Exited
              /\ exit_code.status # 0
              /\ trail = <<"extract">>
        /\ (machine.mdb_exists /\ ~machine.tool_present) =>
              /\ exports = <<"INVOICE">>
              /\ faults = <<[stage |-> "extract", exc |-> "RuntimeError",
                             then |-> "exit"]>>
              /\ Exited
              /\ exit_code.status # 0
              /\ trail = <<"extract">>

\* C11, witness: the daily run on a machine with mdb-export and no MDB file
\* ended on FileNotFoundError
C11_Witness ==
    /\ entry = "run_daily"
    /\ machine = [mdb_exists |-> FALSE, tool_present |-> TRUE]
    /\ Exited
    /\ faults[1].exc = "FileNotFoundError"
    /\ exports = <<>>

\* the absolute value
Abs(n) == IF n < 0 THEN -n ELSE n

\* C12: calculate_growth returns None when no previous snapshot is supplied or
\* the previous total revenue is 0, and otherwise the tenth of a percent
\* nearest to (current - previous) / previous * 100 (1100 against 1000 gives
\* 10.0); generate_report_data called without a previous snapshot returns a
\* snapshot with no growth value.
C12_Growth ==
    /\ call = "calculate_growth" =>
          /\ ret.raised = ""
          /\ IF previous_data \in {None, EmptyDict}
             THEN ret.value = None
             ELSE LET c == report_data.invoices.total_revenue
                      p == previous_data.invoices.total_revenue
                  IN  IF p = 0
                      THEN ret.value = None
                      ELSE /\ DOMAIN ret.value = {"tenths"}
                           /\ 2 * Abs(ret.value.tenths * p - 1000 * (c - p)) <= p
                           /\ (c = 1100 /\ p = 1000) => ret.value.tenths = 100
    /\ (call = "generate_report_data" /\ previous_data = None) =>
          /\ ret.raised = ""
          /\ "growth" \notin DOMAIN ret.value
          /\ "invoices" \in DOMAIN ret.value

\* C13: for every invoice collection the payment breakdown (the service
\* breakdown) of analyze_invoices has as keys, of its counts and of its
\* amounts, exactly the distinct SALE_INFO (C_NO) labels of the input, a row
\* with a missing label carrying none, and gives for each label the number of
\* invoices with it and the sum of their AMOUNT.
C13_Breakdowns ==
    call = "analyze_invoices" =>
        LET Exact(breakdown, col) ==
                /\ DOMAIN breakdown.counts = DOMAIN breakdown.amounts
                /\ NaN \notin DOMAIN breakdown.counts
                /\ \A i \in 1..Len(invoices_df) :
                      invoices_df[i][col] # NaN =>
                          invoices_df[i][col] \in DOMAIN breakdown.counts
                /\ \A k \in DOMAIN breakdown.counts :
                      LET Labelled(r) == r[col] = k
                          rows == SelectSeq(invoices_df, Labelled)
                      IN  /\ Len(rows) > 0
                          /\ breakdown.counts[k] = Len(rows)
                          /\ breakdown.amounts[k] = Total(rows, "AMOUNT")
        IN  /\ ret.raised = ""
            /\ Exact(ret.value.payment_breakdown, "SALE_INFO")
            /\ Exact(ret.value.service_breakdown, "C_NO")

\* C13, witness: two cash invoices of 1 and 2, one dine-in and one delivery:
\* cash counts 2 and amounts to 3, each service type counts 1
C13_Witness ==
    /\ call = "analyze_invoices"
    /\ Len(invoices_df) = 2
    /\ ret.value.payment_breakdown.counts = [k \in {"cash"} |-> 2]
    /\ ret.value.payment_breakdown.amounts = [k \in {"cash"} |-> 3]
    /\ ret.value.service_breakdown.counts =
          [k \in {"dine-in", "delivery"} |-> 1]

\* C14: category_performance returned by analyze_sales has one entry for
\* every distinct category of the line items, whatever the top-N setting, each
\* with the summed QTY, AMOUNT and COST of the category, and the entries are
\* sorted descending by summed AMOUNT.
C14_CategoryPerformance ==
    call = "analyze_sales" =>
        /\ ret.raised = ""
        /\ LET perf == ret.value.category_performance
               categories == {sales_df[i].CATOGERY : i \in 1..Len(sales_df)}
           IN  /\ Len(perf) = Cardinality(categories)
               /\ {perf[i].key : i \in 1..Len(perf)} = categories
               /\ \A i \in 1..Len(perf) :
                     LET InCategory(r) == r.CATOGERY = perf[i].key
                         rows == SelectSeq(sales_df, InCategory)
                     IN  /\ perf[i].QTY = Total(rows, "QTY")
                         /\ perf[i].AMOUNT = Total(rows, "AMOUNT")
                         /\ perf[i].COST = Total(rows, "COST")
               /\ \A i, j \in 1..Len(perf) :
                     i < j => perf[i].AMOUNT >= perf[j].AMOUNT

\* C15: in the result of analyze_sales every entry of top_items and of
\* category_performance has PROFIT = summed AMOUNT - summed COST,
\* total_items_sold is the sum of QTY, total_cost the sum of COST, and
\* total_profit the sum of AMOUNT over all line items minus total_cost.
C15_ProfitAndTotals ==
    call = "analyze_sales" =>
        /\ ret.raised = ""
        /\ \A i \in 1..Len(ret.value.top_items) :
              LET e == ret.value.top_items[i]
                  IsItem(r) == r.ITEMS = e.key
                  rows == SelectSeq(sales_df, IsItem)
              IN  /\ e.PROFIT = e.AMOUNT - e.COST
                  /\ e.PROFIT = Total(rows, "AMOUNT") - Total(rows, "COST")
        /\ \A i \in 1..Len(ret.value.category_performance) :
              LET e == ret.value.category_performance[i]
                  InCategory(r) == r.CATOGERY = e.key
                  rows == SelectSeq(sales_df, InCategory)
              IN  /\ e.PROFIT = e.AMOUNT - e.COST
                  /\ e.PROFIT = Total(rows, "AMOUNT") - Total(rows, "COST")
        /\ ret.value.total_items_sold = Total(sales_df, "QTY")
        /\ ret.value.total_cost = Total(sales_df, "COST")
        /\ ret.value.total_profit
              = Total(sales_df, "AMOUNT") - ret.value.total_cost

\* C16: daily_sales returned by analyze_invoices is keyed by the calendar date
\* of DATE, the time of day discarded: the invoices of one calendar date,
\* whatever their times, are summed into one bucket, and the keys are exactly
\* the distinct calendar dates of the input.
C16_DailySales ==
    call = "analyze_invoices" =>
        LET daily == ret.value.daily_sales
            Day(r) == [y |-> r.DATE.y, m |-> r.DATE.m, d |-> r.DATE.d]
        IN  /\ ret.raised = ""
            /\ DOMAIN daily = {Day(invoices_df[i]) : i \in 1..Len(invoices_df)}
            /\ \A day \in DOMAIN daily :
                  LET OnDay(r) == /\ r.DATE.y = day.y
                                  /\ r.DATE.m = day.m
                                  /\ r.DATE.d = day.d
                  IN  daily[day] = Total(SelectSeq(invoices_df, OnDay), "AMOUNT")

\* C16, witness: invoices of 1 and 2 at 14:00 and at 20:00 of 1 November 2025
\* make one bucket of 3
C16_Witness ==
    /\ call = "analyze_invoices"
    /\ Len(invoices_df) = 2
    /\ invoices_df[1].DATE = Stamp(2025, 11, 1, 14)
    /\ invoices_df[2].DATE = Stamp(2025, 11, 1, 20)
    /\ ret.value.daily_sales = [day \in {[y |-> 2025, m |-> 11, d |-> 1]} |-> 3]

Stages == <<"extract", "analyze", "render", "deliver">>

\* C18: in every run of every entry point the stages are entered in the order
\* Record Source, Metrics Engine, Document Renderer, Delivery Agent, each at
\* most once: nothing is delivered before a document was rendered, nothing
\* rendered before the snapshot was built, no snapshot built before the
\* extraction returned.
C18_StageOrder ==
    /\ Len(trail) <= Len(Stages)
    /\ \A i \in 1..Len(trail) : trail[i] = Stages[i]
    /\ send_pc # "idle" =>
          IF output_path = ""
          THEN "layout" \in DOMAIN ret.value
          ELSE /\ output_path \in DOMAIN files
               /\ files[output_path] # EarlierReport
    /\ ((\E path \in DOMAIN files : files[path] # EarlierReport)
            \/ ret # NoCall) => report_data # None
    /\ report_data # None =>
          /\ exports = <<"INVOICE", "SALE">>
          /\ faults = <<>> \/ faults[1].stage # "extract"

\* C18, witness: a run of main.main went through the four stages and
\* returned 0 after the message was sent
C18_Witness ==
    /\ entry = "main"
    /\ Exited
    /\ exit_code.status = 0
    /\ trail = Stages
    /\ send_pc = "returned"
    /\ report_data.invoices.total_transactions = 2

\* C19: the full-layout document of generate_pdf has its sections in the
\* order header (with the period), executive summary, payment breakdown,
\* service-type breakdown, ranked top items, category performance, and then
\* the per-invoice listing if and only if detail rows were supplied; the
\* executive summary has a growth row if and only if the snapshot has a growth
\* value that is not None.
C19_SectionOrder ==
    (call = "generate_pdf" /\ "layout" \in DOMAIN Emitted
        /\ Emitted.layout = "full") =>
        LET sections == Emitted.elements
            names == [i \in 1..Len(sections) |-> sections[i].name]
            summary == sections[2].rows
            has_growth == /\ "growth" \in DOMAIN report_data
                          /\ report_data.growth # None
        IN  /\ names = <<"header", "summary", "payment", "service",
                         "top_items", "category">>
                        \o (IF data_invoices # None
                            THEN <<"invoice_table">> ELSE <<>>)
            /\ sections[1].period = report_data.period.start_date
            /\ has_growth <=>
                  \E i \in 1..Len(summary) :
                      summary[i].label = "Growth vs Previous Month"
            /\ Len(summary) = IF has_growth THEN 5 ELSE 4

\* C19, witness: a snapshot with a growth value was rendered with detail rows:
\* seven sections, the last the invoice listing, five rows in the summary
C19_Witness ==
    /\ call = "generate_pdf"
    /\ data_invoices # None
    /\ "growth" \in DOMAIN report_data
    /\ report_data.growth # None
    /\ Emitted.layout = "full"
    /\ Len(Emitted.elements) = 7
    /\ Emitted.elements[7].name = "invoice_table"
    /\ Len(Emitted.elements[2].rows) = 5

\* a datetime as one number, for comparing
Moment(ts) == ((ts.y * 100 + ts.m) * 100 + ts.d) * 100 + ts.t

\* C20: generate_report_data records as period.start_date the earliest and as
\* period.end_date the latest DATE of a non-empty invoice collection (both are
\* dates of input invoices and start_date <= end_date); for an empty
\* collection it raises no fault and both bounds are undefined (NaT).
C20_PeriodBounds ==
    call = "generate_report_data" =>
        /\ ret.raised = ""
        /\ LET period == ret.value.period
               dates == {invoices_df[i].DATE : i \in 1..Len(invoices_df)}
           IN  IF invoices_df = <<>>
               THEN period = [start_date |-> NaT, end_date |-> NaT]
               ELSE /\ period.start_date \in dates
                    /\ period.end_date \in dates
                    /\ \A t \in dates :
                          /\ Moment(period.start_date) <= Moment(t)
                          /\ Moment(t) <= Moment(period.end_date)
                    /\ Moment(period.start_date) <= Moment(period.end_date)

\* C21: avg_items_per_order returned by analyze_sales is the arithmetic mean,
\* over the distinct INV_NO of the line items, of the sum of QTY of each
\* invoice, so that avg_items_per_order * number of distinct INV_NO =
\* total_items_sold; with no line item it is 0 or absent.
C21_AvgItemsPerOrder ==
    call = "analyze_sales" =>
        /\ ret.raised = ""
        /\ LET orders == {sales_df[i].INV_NO : i \in 1..Len(sales_df)}
           IN  IF sales_df = <<>>
               THEN \/ "avg_items_per_order" \notin DOMAIN ret.value
                    \/ /\ ret.value.avg_items_per_order.den # 0
                       /\ ret.value.avg_items_per_order.num = 0
               ELSE LET avg == ret.value.avg_items_per_order
                    IN  /\ avg.den # 0
                        /\ avg.num * Cardinality(orders)
                              = avg.den * Total(sales_df, "QTY")
                        /\ ret.value.total_items_sold = Total(sales_df, "QTY")


\* the hour count of a cell that spells a datetime, for comparing two of them
CellMoment(date, time) == Moment(Stamp(date.y, date.m, date.d, time.t))

\* C22: filter_table_by_time returns exactly the exported rows whose combined
\* DATE lies between the two bounds, both included, a bound that is None
\* leaving its side open; a row whose date cannot be parsed is in no result
\* filtered by a bound (what becomes of such a row when neither bound is
\* given is left open).
C22_InclusiveWindow ==
    LET table == machine.INVOICE
        Parses(r) == "text" \notin DOMAIN r.DATE /\ "text" \notin DOMAIN r.TIME
        Bounded == window.start_datetime # None \/ window.end_datetime # None
        InWindow(r) ==
            /\ Parses(r)
            /\ window.start_datetime # None =>
                  Moment(window.start_datetime) <= CellMoment(r.DATE, r.TIME)
            /\ window.end_datetime # None =>
                  CellMoment(r.DATE, r.TIME) <= Moment(window.end_datetime)
        Source(r) == [AMOUNT |-> r.AMOUNT, VAT |-> r.VAT,
                      SALE_INFO |-> r.SALE_INFO, C_NO |-> r.C_NO,
                      TIME |-> r.TIME]
        Picked == SelectSeq(table, InWindow)
    IN  (/\ call = "filter_table_by_time"
         /\ machine.tool_present
         /\ Bounded \/ \A i \in 1..Len(table) : Parses(table[i])) =>
            /\ ret.raised = ""
            /\ Len(ret.value) = Len(Picked)
            /\ \A i \in 1..Len(Picked) :
                  /\ Source(ret.value[i]) = Source(Picked[i])
                  /\ Moment(ret.value[i].DATE)
                        = CellMoment(Picked[i].DATE, Picked[i].TIME)


\* the call of generate_pdf of the run has returned
HasRendered ==
    /\ \E i \in 1..Len(trail) : trail[i] = "render"
    /\ \A i \in 1..Len(faults) : faults[i].stage # "render"

\* C23: generate_pdf returns a document buffer exactly when it is given no
\* output_path, and otherwise returns None having written the document to
\* output_path; so the document run_daily.main and run_monthly.main hand to
\* send_report_email is the one read back from the file this run wrote, not
\* one that was at that path before.
C23_BufferOrFile ==
    /\ (HasRendered \/ call = "generate_pdf") =>
          /\ ret.raised = ""
          /\ (ret.value # None) <=> (output_path = "")
          /\ IF output_path = ""
             THEN /\ files = EmptyDict
                  /\ ret.value.layout \in {"full", "no_sales"}
             ELSE /\ output_path \in DOMAIN files
                  /\ files[output_path] # EarlierReport
                  /\ files[output_path].layout \in {"full", "no_sales"}
    /\ HasRendered =>
          /\ output_path = "" <=> entry = "main"
          /\ output_path # "" =>
                (files[output_path].layout = "no_sales" <=> Len(invoices_df) = 0)
    /\ send_args # None /\ entry # "" =>
          /\ HasRendered
          /\ send_args.pdf_buffer # None
          /\ send_args.pdf_buffer # EarlierReport
          /\ send_args.pdf_buffer =
                IF entry = "main" THEN ret.value ELSE files[output_path]

\* run_daily.main sends the full report it has just written to its file
C23_Witness ==
    /\ entry = "run_daily"
    /\ send_args # None
    /\ ret.value = None
    /\ send_args.pdf_buffer = files[output_path]
    /\ send_args.pdf_buffer.layout = "full"
    /\ Len(send_args.pdf_buffer.elements) > 1


\* the sum of the values of a mapping, key by key
RECURSIVE SumValues(_)
SumValues(f) ==
    IF DOMAIN f = {} THEN 0
    ELSE LET k == CHOOSE x \in DOMAIN f : TRUE
         IN  f[k] + SumValues([x \in DOMAIN f \ {k} |-> f[x]])

\* C24: the counts and the amounts of a breakdown of analyze_invoices always
\* have the same keys; and where every invoice has a payment label, a service
\* label and a date, the payment counts add up to total_transactions, and the
\* payment amounts, the service amounts and the daily sales each add up to
\* total_revenue.
C24_Conservation ==
    call = "analyze_invoices" =>
        LET metrics == ret.value
            payment == metrics.payment_breakdown
            service == metrics.service_breakdown
            Complete == \A i \in 1..Len(invoices_df) :
                            /\ invoices_df[i].SALE_INFO # NaN
                            /\ invoices_df[i].C_NO # NaN
                            /\ invoices_df[i].DATE # NaT
        IN  /\ ret.raised = ""
            /\ DOMAIN payment.counts = DOMAIN payment.amounts
            /\ DOMAIN service.counts = DOMAIN service.amounts
            /\ Complete =>
                  /\ SumValues(payment.counts) = metrics.total_transactions
                  /\ SumValues(payment.amounts) = metrics.total_revenue
                  /\ SumValues(service.amounts) = metrics.total_revenue
                  /\ SumValues(metrics.daily_sales) = metrics.total_revenue

\* C24, witness: a cash invoice and a card invoice, on two days and of both
\* service types, every label present
C24_Witness ==
    /\ call = "analyze_invoices"
    /\ Len(invoices_df) = 2
    /\ \A i \in 1..2 : invoices_df[i].SALE_INFO # NaN
    /\ DOMAIN ret.value.payment_breakdown.counts = {"cash", "card"}
    /\ Cardinality(DOMAIN ret.value.service_breakdown.amounts) = 2
    /\ Cardinality(DOMAIN ret.value.daily_sales) = 2
    /\ ret.value.total_revenue = 3
    /\ SumValues(ret.value.daily_sales) = 3

=============================================================================
